---------------------------- MODULE Spec2Model ----------------------------
(***************************************************************************)
(* Model of the infogram-go client: request signing (Client.SignRequest),  *)
(* dispatch (Client.Do, Client.signAndDo) and the endpoint operations.     *)
(*                                                                         *)
(* The repository holds three copies of the client, and the model has all  *)
(* three: client.go lines 1-139 (definitions with the suffix 1),           *)
(* client_test.go lines 244-458 (suffix 2) and client.go lines 141-359     *)
(* (no suffix).  A client runs one of them, named by its field rev.        *)
(*                                                                         *)
(* Strings are sequences of one-character strings, so that percent         *)
(* encoding, query parsing and byte-wise ordering are computed as the      *)
(* code computes them.  HMAC-SHA1, base64 and the hexadecimal form are     *)
(* abstract, injective functions of their inputs, written as bracketed     *)
(* terms.                                                                  *)
(***************************************************************************)
EXTENDS Integers, Sequences, FiniteSets, TLC

\* ------------------------------------------------------------------ bounds
\* How many times SignRequest may be applied to one request.
MaxSigns == 2

\* How many goroutines call the operations of one client.
NumGoroutines == 2

\* ------------------------------------------------------------- byte strings
Nil == <<"<nil>">>

\* The characters of the model in ASCII (byte) order.
AsciiOrder ==
    << " ", "%", "&", "+", "-", ".", "/",
       "0", "1", "2", "3", "4", "5", "6", "7", "8", "9",
       ":", "=", "?",
       "A", "B", "C", "D", "E", "F",
       "_",
       "a", "b", "c", "d", "e", "f", "g", "h", "i", "j", "k", "l", "m",
       "n", "o", "p", "q", "r", "s", "t", "u", "v", "w", "x", "y", "z" >>

\* The byte value of a character, as far as ordering goes.
CharCode ==
    [ c \in { AsciiOrder[i] : i \in 1..Len(AsciiOrder) } |->
        CHOOSE i \in 1..Len(AsciiOrder) : AsciiOrder[i] = c ]

Code(c) == IF c \in DOMAIN CharCode THEN CharCode[c] ELSE 0

\* Go's < on strings: byte-wise lexicographic order.
RECURSIVE StrLess(_, _)
StrLess(s, t) ==
    IF t = <<>> THEN FALSE
    ELSE IF s = <<>> THEN TRUE
    ELSE IF Code(Head(s)) < Code(Head(t)) THEN TRUE
    ELSE IF Code(Head(s)) > Code(Head(t)) THEN FALSE
    ELSE StrLess(Tail(s), Tail(t))

RECURSIVE Concat(_)
Concat(ss) == IF ss = <<>> THEN <<>> ELSE Head(ss) \o Concat(Tail(ss))

\* strings.Join
RECURSIVE Join(_, _)
Join(ss, sep) ==
    IF ss = <<>> THEN <<>>
    ELSE IF Len(ss) = 1 THEN Head(ss)
    ELSE Head(ss) \o sep \o Join(Tail(ss), sep)

\* The index of the first occurrence of character c in s, or 0.
IndexOf(s, c) ==
    LET at == { i \in 1..Len(s) : s[i] = c }
    IN  IF at = {} THEN 0 ELSE CHOOSE i \in at : \A j \in at : i <= j

\* The concatenation of f[lo], ..., f[hi].
RECURSIVE ConcatRange(_, _, _)
ConcatRange(f, lo, hi) ==
    IF lo > hi THEN <<>>
    ELSE IF lo = hi THEN f[lo]
    ELSE LET mid == (lo + hi) \div 2
         IN  ConcatRange(f, lo, mid) \o ConcatRange(f, mid + 1, hi)

\* strings.Split on a one-character separator.
RECURSIVE Split(_, _)
Split(s, c) ==
    LET i == IndexOf(s, c)
    IN  IF i = 0 THEN << s >>
        ELSE << SubSeq(s, 1, i - 1) >> \o Split(SubSeq(s, i + 1, Len(s)), c)

\* ---------------------------------------------------------- percent encoding
Unreserved ==
    { "-", ".", "_",
      "0", "1", "2", "3", "4", "5", "6", "7", "8", "9",
      "A", "B", "C", "D", "E", "F",
      "a", "b", "c", "d", "e", "f", "g", "h", "i", "j", "k", "l", "m",
      "n", "o", "p", "q", "r", "s", "t", "u", "v", "w", "x", "y", "z" }

HexDigits ==
    { "0", "1", "2", "3", "4", "5", "6", "7", "8", "9",
      "A", "B", "C", "D", "E", "F", "a", "b", "c", "d", "e", "f" }

\* The %XX form of the reserved characters of the model.
EscTable ==
    [ c \in { "%", "&", "+", "/", ":", "=", "?" } |->
        CASE c = "%" -> << "%", "2", "5" >>
          [] c = "&" -> << "%", "2", "6" >>
          [] c = "+" -> << "%", "2", "B" >>
          [] c = "/" -> << "%", "2", "F" >>
          [] c = ":" -> << "%", "3", "A" >>
          [] c = "=" -> << "%", "3", "D" >>
          [] c = "?" -> << "%", "3", "F" >> ]

\* url.QueryEscape on one character: a space becomes "+", a reserved
\* character its %XX form; every other character is written as it is.
EscapeChar(c) ==
    IF c = " " THEN << "+" >>
    ELSE IF c \in DOMAIN EscTable THEN EscTable[c]
    ELSE << c >>

QueryEscape(s) == ConcatRange([i \in 1..Len(s) |-> EscapeChar(s[i])], 1, Len(s))

\* The character a %XX stands for.
Unhex(enc) ==
    IF \E c \in DOMAIN EscTable : EscTable[c] = enc
    THEN CHOOSE c \in DOMAIN EscTable : EscTable[c] = enc
    ELSE IF enc = << "%", "2", "0" >> THEN " "
    ELSE "%" \o enc[2] \o enc[3]

\* url.QueryUnescape: [ok, s].  A "%" that two hex digits do not follow is
\* an error; otherwise "+" is a space and %XX the character it encodes.
QueryUnescape(s) ==
    LET bad == \E i \in 1..Len(s) :
                   /\ s[i] = "%"
                   /\ (i + 2 > Len(s) \/ s[i + 1] \notin HexDigits
                       \/ s[i + 2] \notin HexDigits)
        piece(i) ==
            IF s[i] = "%" THEN << Unhex(SubSeq(s, i, i + 2)) >>
            ELSE IF (i > 1 /\ s[i - 1] = "%") \/ (i > 2 /\ s[i - 2] = "%") THEN <<>>
            ELSE IF s[i] = "+" THEN << " " >>
            ELSE << s[i] >>
    IN  IF bad THEN [ok |-> FALSE, s |-> <<>>]
        ELSE [ok |-> TRUE, s |-> ConcatRange([i \in 1..Len(s) |-> piece(i)], 1, Len(s))]

\* ------------------------------------------------------------- url.Values
\* url.Values is map[string][]string: a function from keys to the sequence
\* of the key's values.
EmptyValues == [k \in {} |-> <<>>]

\* Values.Get: the first value of the key, or "".
Get(v, key) ==
    IF key \in DOMAIN v /\ v[key] # <<>> THEN v[key][1] ELSE <<>>

\* Values.Set: the key's values become the one value given.
Set(v, key, value) ==
    [k \in (DOMAIN v) \cup {key} |-> IF k = key THEN << value >> ELSE v[k]]

\* Values.Add: the value is appended to the key's values.
Add(v, key, value) ==
    [k \in (DOMAIN v) \cup {key} |->
        IF k = key
        THEN (IF key \in DOMAIN v THEN v[key] ELSE <<>>) \o << value >>
        ELSE v[k]]

\* copyValues of net/http: every value of src is added to dst.
CopyValues(dst, src) ==
    [k \in (DOMAIN dst) \cup (DOMAIN src) |->
        (IF k \in DOMAIN dst THEN dst[k] ELSE <<>>) \o
        (IF k \in DOMAIN src THEN src[k] ELSE <<>>)]

\* One key=value piece of a query string: [ok, key, value].
ParsePiece(piece) ==
    LET i == IndexOf(piece, "=")
        rawKey == IF i = 0 THEN piece ELSE SubSeq(piece, 1, i - 1)
        rawVal == IF i = 0 THEN <<>> ELSE SubSeq(piece, i + 1, Len(piece))
        k == QueryUnescape(rawKey)
        v == QueryUnescape(rawVal)
    IN  [ok |-> k.ok /\ v.ok, key |-> k.s, value |-> v.s]

\* url.ParseQuery on the pieces of a query string: empty pieces and pieces
\* that do not unescape are skipped, the others are added in order.
RECURSIVE ParsePieces(_, _)
ParsePieces(pieces, acc) ==
    IF pieces = <<>> THEN acc
    ELSE LET p == ParsePiece(Head(pieces))
         IN  IF Head(pieces) = <<>> \/ ~p.ok
             THEN ParsePieces(Tail(pieces), acc)
             ELSE ParsePieces(Tail(pieces), Add(acc, p.key, p.value))

ParseQuery(query) == ParsePieces(Split(query, "&"), EmptyValues)

\* The least string of a non-empty set, byte-wise.
MinStr(S) == CHOOSE s \in S : \A t \in S : t = s \/ StrLess(s, t)

\* sort.Strings on the keys of a map.
RECURSIVE SortedKeys(_)
SortedKeys(S) ==
    IF S = {} THEN <<>>
    ELSE LET m == MinStr(S) IN << m >> \o SortedKeys(S \ {m})

\* The key=value pieces Values.Encode writes for one key.
EncodeKey(key, values) ==
    [i \in 1..Len(values) |-> QueryEscape(key) \o << "=" >> \o QueryEscape(values[i])]

\* An encoding that writes the first value of each key only.
EncodeFirst(v) ==
    LET keys == SortedKeys(DOMAIN v)
    IN  Join([i \in 1..Len(keys) |->
                 QueryEscape(keys[i]) \o << "=" >> \o QueryEscape(Get(v, keys[i]))],
             << "&" >>)

\* Values.Encode: "URL encoded" form, sorted by key.
Encode(v) ==
    LET keys == SortedKeys(DOMAIN v)
    IN  Join(Concat([i \in 1..Len(keys) |-> EncodeKey(keys[i], v[keys[i]])]), << "&" >>)

\* ----------------------------------------------------------------- requests
\* A URL is what precedes the "?" (scheme, host and path) and the raw query.
\* URL.Query parses the raw query and drops the parse error.
Query(u) == ParseQuery(u.RawQuery)

\* URL.String
URLString(u) ==
    IF u.RawQuery = <<>> THEN u.Base ELSE u.Base \o << "?" >> \o u.RawQuery

\* A "%" of s that two hex digits do not follow.
BadEscape(s) ==
    \E i \in 1..Len(s) :
        /\ s[i] = "%"
        /\ (i + 2 > Len(s) \/ s[i + 1] \notin HexDigits \/ s[i + 2] \notin HexDigits)

\* url.Parse: [ok, url].  The raw query is what follows the first "?".
ParseURL(s) ==
    LET i == IndexOf(s, "?")
        base == IF i = 0 THEN s ELSE SubSeq(s, 1, i - 1)
        raw == IF i = 0 THEN <<>> ELSE SubSeq(s, i + 1, Len(s))
    IN  [ok |-> ~BadEscape(base), url |-> [Base |-> base, RawQuery |-> raw]]

\* A URL the transport can send to names its scheme.
HasScheme(u) == Len(u.Base) >= 2 /\ u.Base[2] = ":"

NoForm == [k \in {Nil} |-> <<>>]
FormType == << "application/x-www-form-urlencoded" >>

\* No request: a nil *http.Request.
NoRequest ==
    [Method |-> "", URL |-> [Base |-> <<>>, RawQuery |-> <<>>], Body |-> Nil,
     BodyRead |-> FALSE, ContentType |-> <<>>, Form |-> NoForm, RequestURI |-> <<>>]

\* http.NewRequest(method, url, body): [ok, req].  Body is Nil for a nil
\* body; BodyRead says whether the body's reader has been drained.
HTTPNewRequest(method, urlStr, body) ==
    LET u == ParseURL(urlStr)
    IN  [ok |-> u.ok,
         req |-> [Method |-> method, URL |-> u.url, Body |-> body,
                  BodyRead |-> FALSE, ContentType |-> <<>>,
                  Form |-> NoForm, RequestURI |-> <<>>]]

\* Request.ParseForm.  It does nothing once Form is set.  For POST and PUT
\* with a form-encoded body the body is read and parsed; the values of the
\* body come first, the values of the URL's query after them.
ParseForm(req) ==
    IF req.Form # NoForm THEN req
    ELSE
        LET readsBody == /\ req.Method \in {"POST", "PUT"}
                         /\ req.Body # Nil
                         /\ req.ContentType = FormType
            postForm == IF readsBody /\ ~req.BodyRead
                        THEN ParseQuery(req.Body) ELSE EmptyValues
        IN  [req EXCEPT !.Form = CopyValues(postForm, Query(req.URL)),
                        !.BodyRead = req.BodyRead \/ readsBody]

\* ------------------------------------------------------------------ signing
api_key == << "a", "p", "i", "_", "k", "e", "y" >>
api_sig == << "a", "p", "i", "_", "s", "i", "g" >>

\* The characters of s[lo..hi] as one string.
RECURSIVE Flat(_, _, _)
Flat(s, lo, hi) ==
    IF lo > hi THEN ""
    ELSE IF lo = hi THEN s[lo]
    ELSE LET mid == (lo + hi) \div 2
         IN  Flat(s, lo, mid) \o Flat(s, mid + 1, hi)

\* hmac.New(sha1.New, key), Write(msg), Sum(nil): the keyed digest, an
\* abstract injective function of the key and the message, written as one
\* character that names both.
HMAC(key, msg) ==
    << "hmac-sha1(" \o Flat(key, 1, Len(key)) \o "," \o Flat(msg, 1, Len(msg)) \o ")" >>

\* base64.StdEncoding.EncodeToString of a 20-byte digest: 27 characters of
\* the base64 alphabet, abstract and written as one, and one "=" of padding.
Base64(digest) == << "base64(" \o Flat(digest, 1, Len(digest)) \o ")", "=" >>

\* fmt.Sprintf("%x", b): the hexadecimal form of the bytes, abstract and
\* written as one character.
Hex(b) == << "hex(" \o Flat(b, 1, Len(b)) \o ")" >>

\* hmac.New(sha1.New, key) and then Sum(b) with nothing written: Sum appends
\* the digest of what was written, the empty message, to b.
Sum(secret, b) == b \o HMAC(secret, <<>>)

\* Lines 261-263 of SignRequest: the digest of the canonical string under
\* the API secret.
Signature(secret, msg) == HMAC(secret, msg)

\* The orders in which Go may range over the keys of a map.
RECURSIVE KeyOrders(_)
KeyOrders(S) ==
    IF S = {} THEN { <<>> }
    ELSE UNION { { << k >> \o o : o \in KeyOrders(S \ {k}) } : k \in S }

\* Insertion of a key into a sorted sequence of keys.
RECURSIVE InsertKey(_, _)
InsertKey(sorted, key) ==
    IF sorted = <<>> THEN << key >>
    ELSE IF StrLess(key, Head(sorted)) THEN << key >> \o sorted
    ELSE << Head(sorted) >> \o InsertKey(Tail(sorted), key)

RECURSIVE SortFrom(_, _)
SortFrom(keys, sorted) ==
    IF keys = <<>> THEN sorted
    ELSE SortFrom(Tail(keys), InsertKey(sorted, Head(keys)))

\* The keys left in the order the map yielded them.
SortSliceSkipped(keys) == keys

\* sort.Slice(dataKeys, less) with less(i, j) = dataKeys[i] < dataKeys[j].
SortSlice(keys) == SortFrom(keys, <<>>)

\* The loop of lines 250-257: key "=" data.Get(key), and "&" after every
\* key but the last.
RECURSIVE WriteParams(_, _, _)
WriteParams(dataKeys, data, idx) ==
    IF idx > Len(dataKeys) THEN <<>>
    ELSE dataKeys[idx] \o << "=" >> \o Get(data, dataKeys[idx])
         \o (IF idx - 1 < Len(dataKeys) - 1 THEN << "&" >> ELSE <<>>)
         \o WriteParams(dataKeys, data, idx + 1)

IsQueryMethod(method) == method \in {"GET", "DELETE"}

\* Line 235 of SignRequest: data.Set("api_key", c.APIKey).
SetAPIKey(data, key) == Set(data, api_key, key)

\* Lines 225-233 of SignRequest: the parameter set, from the query for GET
\* and DELETE and from the parsed form otherwise.
ReadParams(req) ==
    IF IsQueryMethod(req.Method) THEN Query(req.URL) ELSE ParseForm(req).Form

\* Lines 225-235 of SignRequest: the parameter set with api_key set.
SignData(c, req) == SetAPIKey(ReadParams(req), c.APIKey)

\* Lines 237-241 and 259 of SignRequest: the canonical string, for the
\* parameter string of the request.
CanonicalString(req, params) ==
    << req.Method, "&" >> \o QueryEscape(URLString(req.URL)) \o << "&" >>
    \o QueryEscape(params)

\* Lines 267-272 of SignRequest: the parameter set goes back to the query
\* for GET and DELETE, and to req.Form otherwise.
WriteBack(req, data) ==
    IF IsQueryMethod(req.Method) THEN [req EXCEPT !.URL.RawQuery = Encode(data)]
    ELSE [ParseForm(req) EXCEPT !.Form = data]

\* What a call of SignRequest leaves.  req is the request after the call;
\* data is the parameter set written back to it; keys, params and sig are
\* the locals of the call: the sorted keys, the parameter string and the
\* canonical string; value is the value stored under api_sig.
Signed(req, data, keys, params, sig, value) ==
    [req |-> req, data |-> data, keys |-> keys, params |-> params, sig |-> sig,
     value |-> value]

\* Lines 261-272 of SignRequest: the encoded digest is added to the
\* parameter set under api_sig.
SignCanonical(c, req, data, keys, params, sig) ==
    Signed(WriteBack(req, Add(data, api_sig, Base64(Signature(c.APISecret, sig)))),
           Add(data, api_sig, Base64(Signature(c.APISecret, sig))),
           keys, params, sig, Base64(Signature(c.APISecret, sig)))

SignParams(c, req, data, keys, params) ==
    SignCanonical(c, req, data, keys, params, CanonicalString(req, params))

SignSorted(c, req, data, keys) ==
    SignParams(c, req, data, keys, WriteParams(keys, data, 1))

\* Client.SignRequest of client.go, lines 224-275, for the order in which
\* the map of the parameters yields its keys.  The error returned is
\* always nil.
SignRequest(c, req, order) == SignSorted(c, req, SignData(c, req), SortSlice(order))

\* ---------------------------------------------- signing, the earlier copies
\* URL.EscapedPath: what follows the host.  The paths of the model have no
\* character that is escaped.
EscapedPath(u) ==
    IF ~HasScheme(u) THEN u.Base
    ELSE LET at == { i \in 5..Len(u.Base) : u.Base[i] = "/" }
         IN  IF at = {} THEN <<>>
             ELSE SubSeq(u.Base, CHOOSE i \in at : \A j \in at : i <= j, Len(u.Base))

\* The loop over queryKeys: the escaped key, "=", the escaped query.Get(key)
\* and then "&" whenever idx < len(queryKeys), which holds for every idx.
RECURSIVE WriteParams1(_, _, _)
WriteParams1(queryKeys, query, idx) ==
    IF idx > Len(queryKeys) THEN <<>>
    ELSE QueryEscape(queryKeys[idx]) \o << "=" >>
         \o QueryEscape(Get(query, queryKeys[idx]))
         \o (IF idx - 1 < Len(queryKeys) THEN << "&" >> ELSE <<>>)
         \o WriteParams1(queryKeys, query, idx + 1)

\* The canonical string of the earlier copies: the method, the escaped path
\* and the escaped parameter string.
CanonicalString1(req, params) ==
    << req.Method, "&" >> \o EscapedPath(req.URL) \o << "&" >> \o QueryEscape(params)

\* signature := h.Sum(sig.Bytes()), query.Set("api_sig", "%x" of it) and
\* req.URL.RawQuery = query.Encode().
SignCanonical1(c, req, query, keys, params, sig) ==
    Signed([req EXCEPT !.URL.RawQuery =
                Encode(Set(query, api_sig, Hex(Sum(c.APISecret, sig))))],
           Set(query, api_sig, Hex(Sum(c.APISecret, sig))),
           keys, params, sig, Hex(Sum(c.APISecret, sig)))

SignParams1(c, req, query, keys, params) ==
    SignCanonical1(c, req, query, keys, params, CanonicalString1(req, params))

SignSorted1(c, req, query, keys) ==
    SignParams1(c, req, query, keys, WriteParams1(keys, query, 1))

\* Client.SignRequest of client.go, lines 54-88: the query is signed as the
\* request carries it.
SignRequest1(c, req, order) ==
    SignSorted1(c, req, Query(req.URL), SortSlice(order))

\* Client.SignRequest of client_test.go, lines 354-389: api_key is set in
\* the query, and the rest is as in SignRequest1.
SignRequest2(c, req, order) ==
    SignSorted1(c, req, SetAPIKey(Query(req.URL), c.APIKey), SortSlice(order))

\* --------------------------------------------------------------------- JSON
\* A JSON text is a sequence of tokens: the punctuation, the literals, and
\* the numbers and strings below.  JSONString gives a string token's content.
NumberTokens == { "0", "1", "1.5", "99" }

JSONString ==
    [ tok \in { "\"id\"", "\"title\"", "\"thumbnail_url\"", "\"theme_id\"",
                "\"published\"", "\"date_modified\"", "\"url\"", "\"label\"",
                "\"\"", "\"One\"", "\"//e/1\"", "\"%zz\"",
                "\"2021-03-04T05:06:07Z\"" } |->
        CASE tok = "\"id\"" -> << "id" >>
          [] tok = "\"title\"" -> << "title" >>
          [] tok = "\"thumbnail_url\"" -> << "thumbnail_url" >>
          [] tok = "\"theme_id\"" -> << "theme_id" >>
          [] tok = "\"published\"" -> << "published" >>
          [] tok = "\"date_modified\"" -> << "date_modified" >>
          [] tok = "\"url\"" -> << "url" >>
          [] tok = "\"label\"" -> << "label" >>
          [] tok = "\"\"" -> << >>
          [] tok = "\"One\"" -> << "One" >>
          [] tok = "\"//e/1\"" -> << "/", "/", "e", "/", "1" >>
          [] tok = "\"%zz\"" -> << "%", "z", "z" >>
          [] tok = "\"2021-03-04T05:06:07Z\"" -> << "2021-03-04T05:06:07Z" >> ]

\* The strings time.Parse(time.RFC3339, _) accepts.
RFC3339Strings == { << "2021-03-04T05:06:07Z" >> }

ScalarKind(tok) ==
    CASE tok \in { "true", "false" } -> "bool"
      [] tok = "null" -> "null"
      [] tok \in NumberTokens -> "number"
      [] tok \in DOMAIN JSONString -> "string"
      [] OTHER -> "invalid"

NoJSON == [t |-> "none", tok |-> "", elems |-> <<>>]
JSONScalar(tok) == [t |-> ScalarKind(tok), tok |-> tok, elems |-> <<>>]
JSONArray(elems) == [t |-> "array", tok |-> "", elems |-> elems]
\* An object's elems are its members, each << key token, value >>, in order.
JSONObject(members) == [t |-> "object", tok |-> "", elems |-> members]
ParseFailed == [ok |-> FALSE, val |-> NoJSON, rest |-> <<>>]

\* The scanner of encoding/json on a token stream: [ok, val, rest].  In
\* mode "value" it reads one value; in mode "elems" the elements of an
\* array up to and with its "]", after the elements acc; in mode "members"
\* the members of an object up to and with its "}", after the members acc.
RECURSIVE Scan(_, _, _)
Scan(mode, toks, acc) ==
    IF mode = "value" THEN
        IF toks = <<>> THEN ParseFailed
        ELSE IF Head(toks) = "[" THEN
            IF Len(toks) >= 2 /\ toks[2] = "]"
            THEN [ok |-> TRUE, val |-> JSONArray(<<>>), rest |-> Tail(Tail(toks))]
            ELSE Scan("elems", Tail(toks), <<>>)
        ELSE IF Head(toks) = "{" THEN
            IF Len(toks) >= 2 /\ toks[2] = "}"
            THEN [ok |-> TRUE, val |-> JSONObject(<<>>), rest |-> Tail(Tail(toks))]
            ELSE Scan("members", Tail(toks), <<>>)
        ELSE IF ScalarKind(Head(toks)) # "invalid"
            THEN [ok |-> TRUE, val |-> JSONScalar(Head(toks)), rest |-> Tail(toks)]
        ELSE ParseFailed
    ELSE IF mode = "elems" THEN
        LET v == Scan("value", toks, <<>>)
        IN  IF ~v.ok \/ v.rest = <<>> THEN ParseFailed
            ELSE IF Head(v.rest) = ","
                THEN Scan("elems", Tail(v.rest), Append(acc, v.val))
            ELSE IF Head(v.rest) = "]"
                THEN [ok |-> TRUE, val |-> JSONArray(Append(acc, v.val)),
                      rest |-> Tail(v.rest)]
            ELSE ParseFailed
    ELSE
        IF Len(toks) < 3 \/ ScalarKind(toks[1]) # "string" \/ toks[2] # ":"
        THEN ParseFailed
        ELSE LET v == Scan("value", SubSeq(toks, 3, Len(toks)), <<>>)
                 member == << toks[1], v.val >>
             IN  IF ~v.ok \/ v.rest = <<>> THEN ParseFailed
                 ELSE IF Head(v.rest) = ","
                     THEN Scan("members", Tail(v.rest), Append(acc, member))
                 ELSE IF Head(v.rest) = "}"
                     THEN [ok |-> TRUE, val |-> JSONObject(Append(acc, member)),
                           rest |-> Tail(v.rest)]
                 ELSE ParseFailed

\* The first JSON value of a token stream.
ParseValue(toks) == Scan("value", toks, <<>>)

\* json.Unmarshal into map[string]interface{}: the value of a key is that
\* of its last member.
HasField(obj, name) ==
    \E i \in 1..Len(obj.elems) : JSONString[obj.elems[i][1]] = << name >>

Field(obj, name) ==
    LET i == CHOOSE i \in 1..Len(obj.elems) :
                 /\ JSONString[obj.elems[i][1]] = << name >>
                 /\ \A j \in (i + 1)..Len(obj.elems) :
                        JSONString[obj.elems[j][1]] # << name >>
    IN  obj.elems[i][2]

\* ------------------------------------------------------------------- errors
NoErr == [kind |-> "nil", text |-> <<>>]
Err(kind, text) == [kind |-> kind, text |-> text]

\* ---------------------------------------------------------------- resources
\* The fields of Infographic and Theme that UnmarshalJSON fills, in the
\* order of the code, with the type each must have.
InfographicFields ==
    << [name |-> "id", dst |-> "Id", type |-> "int"],
       [name |-> "title", dst |-> "Title", type |-> "string"],
       [name |-> "thumbnail_url", dst |-> "Thumbnail", type |-> "url"],
       [name |-> "theme_id", dst |-> "ThemeId", type |-> "int"],
       [name |-> "published", dst |-> "Published", type |-> "bool"],
       [name |-> "date_modified", dst |-> "Modified", type |-> "time"],
       [name |-> "url", dst |-> "URL", type |-> "url"] >>

ThemeFields == SubSeq(InfographicFields, 1, 3)

\* The fields of Infoghaphic (types.go), whose id and theme_id are asserted
\* to be Go ints.
InfoghaphicFields ==
    [i \in 1..Len(InfographicFields) |->
        IF InfographicFields[i].type = "int"
        THEN [InfographicFields[i] EXCEPT !.type = "goint"]
        ELSE InfographicFields[i]]

ZeroTime == << "0001-01-01T00:00:00Z" >>

\* A nil *url.URL.
NilURL == [Base |-> Nil, RawQuery |-> <<>>]

ZeroInfographic ==
    [Id |-> "0", Title |-> <<>>, Thumbnail |-> NilURL, ThemeId |-> "0",
     Published |-> FALSE, Modified |-> ZeroTime, URL |-> NilURL]

ZeroTheme == [Id |-> "0", Title |-> <<>>, Thumbnail |-> NilURL]

\* The JSON type a field's value is asserted to have.
AssertedKind(type) ==
    CASE type = "int" -> "number"
      [] type = "goint" -> "no JSON value"
      [] type = "bool" -> "bool"
      [] OTHER -> "string"

\* The text of the error for a value that fails the type assertion.
TypeErrText(f) ==
    << f.name, " needs to be an ",
       CASE f.type \in { "int", "goint" } -> "int"
         [] f.type = "bool" -> "boolean"
         [] OTHER -> "string" >>

\* int(v) of a float64: the fraction is dropped.
IntOf(tok) == IF tok = "1.5" THEN "1" ELSE tok

\* One field of UnmarshalJSON: [err, val] for a field present in data.
SetField(rec, f, v) ==
    IF v.t # AssertedKind(f.type) THEN [err |-> Err("decode", TypeErrText(f)), val |-> rec]
    ELSE IF f.type = "int" THEN [err |-> NoErr, val |-> [rec EXCEPT ![f.dst] = IntOf(v.tok)]]
    ELSE IF f.type = "bool"
        THEN [err |-> NoErr, val |-> [rec EXCEPT ![f.dst] = (v.tok = "true")]]
    ELSE IF f.type = "string"
        THEN [err |-> NoErr, val |-> [rec EXCEPT ![f.dst] = JSONString[v.tok]]]
    ELSE IF f.type = "url" THEN
        LET u == ParseURL(JSONString[v.tok])
        IN  IF u.ok THEN [err |-> NoErr, val |-> [rec EXCEPT ![f.dst] = u.url]]
            ELSE [err |-> Err("decode", << f.name, " needs to be a parsable URL" >>),
                  val |-> [rec EXCEPT ![f.dst] = NilURL]]
    ELSE IF JSONString[v.tok] \in RFC3339Strings
        THEN [err |-> NoErr, val |-> [rec EXCEPT ![f.dst] = JSONString[v.tok]]]
    ELSE [err |-> Err("decode", << f.name, " needs to be a parsable RFC 3339 time" >>),
          val |-> [rec EXCEPT ![f.dst] = ZeroTime]]

\* The fields from the i-th on, after r = [err, val]: the first failure ends
\* the decoding.
RECURSIVE SetFields(_, _, _, _)
SetFields(r, fields, data, i) ==
    IF i > Len(fields) \/ r.err # NoErr THEN r
    ELSE SetFields(IF HasField(data, fields[i].name)
                   THEN SetField(r.val, fields[i], Field(data, fields[i].name))
                   ELSE r,
                   fields, data, i + 1)

\* Infographic.UnmarshalJSON and Theme.UnmarshalJSON: the value is decoded
\* into a map, then every field found in the map is checked and stored.
UnmarshalJSON(rec, fields, what, v) ==
    IF v.t = "null" THEN [err |-> NoErr, val |-> rec]
    ELSE IF v.t # "object"
        THEN [err |-> Err("decode", << "unmarshalling ", what, ": cannot unmarshal ", v.t >>),
              val |-> rec]
    ELSE SetFields([err |-> NoErr, val |-> rec], fields, v, 1)

AppendElem(acc, r) == [err |-> r.err, val |-> Append(acc.val, r.val)]

\* A slice of resources decoded from an array, after acc = [err, val]: the
\* elements in order, up to and with the first one that fails.
RECURSIVE UnmarshalElems(_, _, _, _, _)
UnmarshalElems(acc, zero, fields, what, elems) ==
    IF elems = <<>> \/ acc.err # NoErr THEN acc
    ELSE UnmarshalElems(AppendElem(acc, UnmarshalJSON(zero, fields, what, Head(elems))),
                        zero, fields, what, Tail(elems))

UnmarshalTypeError(v, goType) ==
    Err("decode", << "json: cannot unmarshal ", v.t, " into Go value of type ", goType >>)

\* ------------------------------------------------------------------ targets
\* What Do is asked to fill: nothing, an io.Writer, or a pointer to a value.
NilTarget == [kind |-> "nil", val |-> <<>>]
WriterTarget == [kind |-> "writer", val |-> <<>>]
SampleTarget == [kind |-> "sample", val |-> [Id |-> <<>>, Label |-> <<>>]]
InfographicsTarget == [kind |-> "infographics", val |-> <<>>]
InfographicTarget == [kind |-> "infographic", val |-> ZeroInfographic]
InfoghaphicsTarget == [kind |-> "infoghaphics", val |-> <<>>]
InfoghaphicTarget == [kind |-> "infoghaphic", val |-> ZeroInfographic]
ThemesTarget == [kind |-> "themes", val |-> <<>>]

\* The fields UnmarshalJSON fills for a target of the kind.
ResourceFields(kind) ==
    CASE kind \in { "infographic", "infographics" } -> InfographicFields
      [] kind \in { "infoghaphic", "infoghaphics" } -> InfoghaphicFields
      [] OTHER -> ThemeFields

\* A string field of a plain struct: [err, s].
SampleField(cur, v, name) ==
    IF ~HasField(v, name) \/ Field(v, name).t = "null" THEN [err |-> NoErr, s |-> cur]
    ELSE IF Field(v, name).t # "string"
        THEN [err |-> UnmarshalTypeError(Field(v, name), "string"), s |-> cur]
    ELSE [err |-> NoErr, s |-> JSONString[Field(v, name).tok]]

SampleFields(id, label) ==
    [err |-> IF id.err # NoErr THEN id.err ELSE label.err,
     val |-> [Id |-> id.s, Label |-> label.s]]

\* json.Unmarshal of a parsed value into the target: [err, val].
Unmarshal(target, v) ==
    IF v.t = "null" /\ target.kind \notin { "infographic", "infoghaphic" }
        THEN [err |-> NoErr, val |-> target.val]
    ELSE IF target.kind \in { "infographic", "infoghaphic" }
        THEN UnmarshalJSON(target.val, ResourceFields(target.kind), "infographic", v)
    ELSE IF target.kind = "sample" THEN
        IF v.t # "object"
        THEN [err |-> UnmarshalTypeError(v, "sample"), val |-> target.val]
        ELSE SampleFields(SampleField(target.val.Id, v, "id"),
                          SampleField(target.val.Label, v, "label"))
    ELSE IF v.t # "array"
        THEN [err |-> UnmarshalTypeError(v, "slice"), val |-> target.val]
    ELSE UnmarshalElems([err |-> NoErr, val |-> <<>>],
                        IF target.kind = "themes" THEN ZeroTheme ELSE ZeroInfographic,
                        ResourceFields(target.kind),
                        IF target.kind = "themes" THEN "theme" ELSE "infographic",
                        v.elems)

EOF == Err("EOF", << "EOF" >>)

Unparsed(target, p) ==
    IF ~p.ok THEN [err |-> Err("decode", << "invalid character" >>), val |-> target.val]
    ELSE Unmarshal(target, p.val)

\* json.NewDecoder(body).Decode(v) on a response body: [err, val].  An
\* empty body gives io.EOF, or the error of the read when the read fails.
Decode(target, res) ==
    IF res.Body = <<>>
    THEN [err |-> IF res.ReadErr THEN Err("read", << "unexpected EOF" >>) ELSE EOF,
          val |-> target.val]
    ELSE Unparsed(target, ParseValue(res.Body))

\* ----------------------------------------------------------------- encoding
\* A string as json.Marshal writes it: the token with that content.
Quote(str) == CHOOSE tok \in DOMAIN JSONString : JSONString[tok] = str

Member(name, tok) == << Quote(<< name >>), ":", tok >>

\* json.Marshal of a map[string]interface{}: the members, which the
\* encoder writes in the sorted order of their keys.
MarshalMap(members) == << "{" >> \o Join(members, << "," >>) \o << "}" >>

MarshalBool(b) == IF b THEN "true" ELSE "false"

\* u.String() of a *url.URL for a member of the map; no member for nil
\* where the code tests for nil.
URLMember(name, u) ==
    IF u = NilURL THEN << >> ELSE << Member(name, Quote(URLString(u))) >>

\* Infographic.MarshalJSON: [panic, json].  Modified is not written.
MarshalJSON(i) ==
    [panic |-> FALSE,
     json |-> MarshalMap(<< Member("id", i.Id), Member("published", MarshalBool(i.Published)),
                            Member("theme_id", i.ThemeId) >>
                         \o URLMember("thumbnail_url", i.Thumbnail)
                         \o << Member("title", Quote(i.Title)) >>
                         \o URLMember("url", i.URL))]

\* Infoghaphic.MarshalJSON of types.go: String() is called on both URLs
\* without a test for nil.
InfoghaphicMarshalJSON(i) ==
    IF i.Thumbnail = NilURL \/ i.URL = NilURL THEN [panic |-> TRUE, json |-> << >>]
    ELSE MarshalJSON(i)

\* Theme.MarshalJSON, the same in both copies.
ThemeMarshalJSON(t) ==
    IF t.Thumbnail = NilURL THEN [panic |-> TRUE, json |-> << >>]
    ELSE [panic |-> FALSE,
          json |-> MarshalMap(<< Member("id", t.Id) >>
                              \o URLMember("thumbnail_url", t.Thumbnail)
                              \o << Member("title", Quote(t.Title)) >>)]

\* Theme.UnmarshalJSON of types.go: the map it reads the fields from is
\* never filled from the bytes, so no field is found.
ThemeUnmarshalJSON1(rec, v) == [err |-> NoErr, val |-> rec]

\* The record types of the repository, each with its two methods.
RecordTypes == { "Infographic", "Theme", "Infoghaphic", "Theme1" }

MarshalOf(type, rec) ==
    CASE type = "Infographic" -> MarshalJSON(rec)
      [] type = "Infoghaphic" -> InfoghaphicMarshalJSON(rec)
      [] OTHER -> ThemeMarshalJSON(rec)

UnmarshalOf(type, rec, v) ==
    CASE type = "Infographic" -> UnmarshalJSON(rec, InfographicFields, "infographic", v)
      [] type = "Infoghaphic" -> UnmarshalJSON(rec, InfoghaphicFields, "infographic", v)
      [] type = "Theme" -> UnmarshalJSON(rec, ThemeFields, "theme", v)
      [] OTHER -> ThemeUnmarshalJSON1(rec, v)

ZeroOf(type) == IF type \in { "Theme", "Theme1" } THEN ZeroTheme ELSE ZeroInfographic

NoTrip ==
    [type |-> "none", rec |-> << >>, panic |-> FALSE, json |-> << >>,
     err |-> NoErr, val |-> << >>]

\* The record decoded from what was written, m = [panic, json], into a new
\* record: the trip's account.
Unmarshalled(type, rec, m, d) ==
    [type |-> type, rec |-> rec, panic |-> FALSE, json |-> m.json,
     err |-> d.err, val |-> d.val]

\* MarshalJSON of rec, then UnmarshalJSON of the bytes into a new record.
RoundTripOf(type, rec, m) ==
    IF m.panic
    THEN [type |-> type, rec |-> rec, panic |-> TRUE, json |-> << >>,
          err |-> NoErr, val |-> << >>]
    ELSE Unmarshalled(type, rec, m, UnmarshalOf(type, ZeroOf(type), ParseValue(m.json).val))

\* ----------------------------------------------------------------- dispatch
DefaultEndpoint ==
    << "https", ":", "/", "/", "infogr.am", "/", "service", "/", "v1" >>

NilRes == [nil |-> TRUE, StatusCode |-> 0, Body |-> <<>>, ReadErr |-> FALSE,
           Closed |-> FALSE]

Response(out) ==
    [nil |-> FALSE, StatusCode |-> out.StatusCode, Body |-> out.Body,
     ReadErr |-> out.ReadErr, Closed |-> FALSE]

\* c.HTTPClient.Do(req): [err, res].  http.Client refuses a request whose
\* RequestURI is set and a URL without a scheme; otherwise the outcome is
\* the environment's.
RoundTrip(req, out) ==
    IF req.RequestURI # <<>>
        THEN [err |-> Err("transport", << "Request.RequestURI can't be set in client requests" >>),
              res |-> NilRes]
    ELSE IF ~HasScheme(req.URL)
        THEN [err |-> Err("transport", << "unsupported protocol scheme" >>), res |-> NilRes]
    ELSE IF out.Err
        THEN [err |-> Err("transport", << "connection refused" >>), res |-> NilRes]
    ELSE [err |-> NoErr, res |-> Response(out)]

\* ctx.Err() of a context that is done.
CtxErr(ctx) ==
    IF ctx = "canceled" THEN Err("context", << "context canceled" >>)
    ELSE Err("context", << "context deadline exceeded" >>)

\* strconv.Itoa, as "%d" prints a number.
RECURSIVE Itoa(_)
Itoa(n) ==
    LET digits == << "0", "1", "2", "3", "4", "5", "6", "7", "8", "9" >>
    IN  IF n < 10 THEN << digits[n + 1] >>
        ELSE Itoa(n \div 10) \o << digits[(n % 10) + 1] >>

\* The function given to c.setup.Do (lines 175-183).
Setup(c) ==
    IF c.setup THEN c
    ELSE [c EXCEPT !.setup = TRUE,
                   !.HTTPClient = IF @ = "nil" THEN "http.DefaultClient" ELSE @,
                   !.Endpoint = IF @ = <<>> THEN DefaultEndpoint ELSE @]

\* Line 203: the failure Do returns for a status above 299.
StatusError(res) ==
    Err("status", << "code: " >> \o Itoa(res.StatusCode) \o << ", message: " >>)

\* Line 197: the statuses for which Do takes the failure path.
IsFailureStatus(code) == code > 299

DoReturn(res, err, panic) == [res |-> res, err |-> err, panic |-> panic]

\* The error of the decoder as it is.
EOFReturned(decErr) == decErr

\* Lines 212-214 of Do: if decErr == io.EOF { decErr = nil }.
IgnoreEOF(decErr) == IF decErr = EOF THEN NoErr ELSE decErr

\* Lines 210-220 of Do: what follows the decoding, d = [err, val].  io.EOF
\* is taken for no error.
Decoded(res, v, d) ==
    IF IgnoreEOF(d.err) # NoErr
    THEN [ret |-> DoReturn(NilRes, d.err, FALSE), target |-> [v EXCEPT !.val = d.val]]
    ELSE [ret |-> DoReturn(res, NoErr, FALSE), target |-> [v EXCEPT !.val = d.val]]

\* A copy that writes nothing.
CopySkipped(w, body) == w

\* io.Copy(w, res.Body): the bytes read from the body are appended to what
\* the writer holds.  The error of the copy is dropped.
Copy(w, body) == w \o body

\* Lines 206-220 of Do, for a status that is no failure: [ret, target].
Succeeded(res, v) ==
    IF v.kind = "nil" THEN [ret |-> DoReturn(res, NoErr, FALSE), target |-> v]
    ELSE IF v.kind = "writer" THEN
        [ret |-> DoReturn(res, NoErr, FALSE),
         target |-> [v EXCEPT !.val = Copy(@, res.Body)]]
    ELSE Decoded(res, v, Decode(v, res))

\* Lines 197-220 of Do, once a response is held: [ret, target].  The
\* deferred Close has run by the time any of the returns is seen, so res is
\* given closed.
HandleResponse(res, v) ==
    IF IsFailureStatus(res.StatusCode) THEN
        [ret |-> DoReturn(NilRes,
                          IF res.ReadErr THEN Err("read", << "unexpected EOF" >>)
                          ELSE StatusError(res), FALSE),
         target |-> v]
    ELSE Succeeded(res, v)

\* What Do leaves: client and req are the client and the request after the
\* call, sent the requests handed to the transport, terr the transport's
\* error, res the response acquired, ret what Do returns, target the
\* caller's v after the call.
DoResult(c, req, terr, res, h) ==
    [client |-> c, req |-> req, sent |-> << req >>, terr |-> terr, res |-> res,
     ret |-> h.ret, target |-> h.target]

\* Lines 188-195 of Do: a transport failure under a context that is done
\* returns the context's error; under a live context the code goes on to
\* res.Body of a nil response, and the call panics.
TransportFailed(ctx, v) ==
    [ret |-> DoReturn(NilRes, IF ctx # "live" THEN CtxErr(ctx) ELSE NoErr, ctx = "live"),
     target |-> v]

\* Lines 188-220 of Do.
AfterRoundTrip(c, ctx, req, v, rt) ==
    IF rt.err # NoErr THEN DoResult(c, req, rt.err, NilRes, TransportFailed(ctx, v))
    ELSE DoResult(c, req, NoErr, [rt.res EXCEPT !.Closed = TRUE],
                  HandleResponse([rt.res EXCEPT !.Closed = TRUE], v))

\* Lines 185-187 of Do: RequestURI is cleared and the request sent.
Send(c, ctx, req, v, out) == AfterRoundTrip(c, ctx, req, v, RoundTrip(req, out))

\* Client.Do of client.go, lines 174-221.
Do(c, ctx, req, v, out) ==
    Send(Setup(c), ctx, [req EXCEPT !.RequestURI = <<>>], v, out)

\* ------------------------------------------------- dispatch, the earlier copy
\* errors.New(string(errBody)): the failure the Do of client_test.go returns
\* for a status above 299.
StatusError2(res) == Err("status", res.Body)

\* The Do of client_test.go once a response is held (lines 326-350).
HandleResponse2(res, v) ==
    IF IsFailureStatus(res.StatusCode) THEN
        [ret |-> DoReturn(NilRes,
                          IF res.ReadErr THEN Err("read", << "unexpected EOF" >>)
                          ELSE StatusError2(res), FALSE),
         target |-> v]
    ELSE Succeeded(res, v)

\* Lines 317-350 of client_test.go.
AfterRoundTrip2(c, ctx, req, v, rt) ==
    IF rt.err # NoErr THEN DoResult(c, req, rt.err, NilRes, TransportFailed(ctx, v))
    ELSE DoResult(c, req, NoErr, [rt.res EXCEPT !.Closed = TRUE],
                  HandleResponse2([rt.res EXCEPT !.Closed = TRUE], v))

\* Client.Do of client_test.go, lines 306-351: the request is sent as it is
\* given.
Do2(c, ctx, req, v, out) == AfterRoundTrip2(Setup(c), ctx, req, v, RoundTrip(req, out))

\* --------------------------------------------------------------- operations
\* What an operation returns and what happened inside it: val and err are
\* the operation's results, panic says that it did not return, do is what
\* the call of Do (or signAndDo) inside it returned, and the rest is that
\* call's account.
OpReturn(d, val, err) ==
    [client |-> d.client, sent |-> d.sent, terr |-> d.terr, res |-> d.res, do |-> d.ret,
     target |-> d.target, val |-> val, err |-> err, panic |-> d.ret.panic]

\* The request an operation builds with http.NewRequest: [ok, req].
OpRequest(c, path) == HTTPNewRequest("GET", c.Endpoint \o path, Nil)

\* An operation whose http.NewRequest fails: nothing is signed or sent.
NewRequestFailed(c, what, v) ==
    [client |-> c, sent |-> <<>>, terr |-> NoErr, res |-> NilRes,
     do |-> DoReturn(NilRes, NoErr, FALSE), target |-> v, val |-> v.val,
     err |-> Err("request", << "new ", what, " request: invalid URL escape" >>),
     panic |-> FALSE]

\* SignRequest and then Do under context.Background(), as each operation
\* of client.go calls them.
SignAndDo(c, req, order, v, out) ==
    Do(c, "live", SignRequest(c, req, order).req, v, out)

InfographicsPath == << "/", "infographics" >>
InfographicPath(id) == << "/", "infographics", "/" >> \o id
UserInfographicsPath(id) == << "/", "users", "/" >> \o id \o << "/", "infographics" >>
ThemesPath == << "/", "themes" >>

\* "if err != nil { return nil, err }" after Do, as in Infographics and
\* Themes: d is what Do left, zero the nil result.
ReturnErr(d, zero) ==
    IF d.ret.err # NoErr THEN OpReturn(d, zero, d.ret.err)
    ELSE OpReturn(d, d.target.val, NoErr)

\* "if err != nil { return nil, nil }" after Do, as in Infographic and
\* UserInfographics.
ReturnNilNil(d, zero) ==
    IF d.ret.err # NoErr THEN OpReturn(d, zero, NoErr)
    ELSE OpReturn(d, d.target.val, NoErr)

\* Client.Infographics (lines 278-296): a failure of Do is returned.
Infographics(c, order, out) ==
    LET n == OpRequest(c, InfographicsPath)
    IN  IF ~n.ok THEN NewRequestFailed(c, "infographics", InfographicsTarget)
        ELSE ReturnErr(SignAndDo(c, n.req, order, InfographicsTarget, out), <<>>)

\* Client.Infographic (lines 299-317): a failure of Do gives nil, nil.
Infographic(c, id, order, out) ==
    LET n == OpRequest(c, InfographicPath(id))
    IN  IF ~n.ok THEN NewRequestFailed(c, "infographic", InfographicTarget)
        ELSE ReturnNilNil(SignAndDo(c, n.req, order, InfographicTarget, out), Nil)

\* Client.UserInfographics (lines 320-338): a failure of Do gives nil, nil.
UserInfographics(c, id, order, out) ==
    LET n == OpRequest(c, UserInfographicsPath(id))
    IN  IF ~n.ok THEN NewRequestFailed(c, "user infographics", InfographicsTarget)
        ELSE ReturnNilNil(SignAndDo(c, n.req, order, InfographicsTarget, out), <<>>)

\* Client.Themes (lines 341-359): a failure of Do is returned.
Themes(c, order, out) ==
    LET n == OpRequest(c, ThemesPath)
    IN  IF ~n.ok THEN NewRequestFailed(c, "themes", ThemesTarget)
        ELSE ReturnErr(SignAndDo(c, n.req, order, ThemesTarget, out), <<>>)

\* ------------------------------------- operations of client_test.go (244-458)
JSONType == << "application/json" >>

\* json.NewEncoder(buf).Encode(body) for the values a caller may give:
\* [ok, bytes].  A struct is written field by field, and the encoder ends
\* the text with a newline; a channel cannot be encoded.
EncodeJSON(body) ==
    IF body.kind = "sample"
    THEN [ok |-> TRUE,
          bytes |-> << "{" >> \o Member("id", Quote(body.val.Id)) \o << "," >>
                    \o Member("label", Quote(body.val.Label)) \o << "}", "\n" >>]
    ELSE [ok |-> FALSE, bytes |-> << >>]

\* A request built without its params and its Content-Type.
WithoutParams(n, params, body) == n

\* Lines 295-299 of NewRequest, after http.NewRequest gave n = [ok, req]:
\* the raw query is the encoding of the params, and a body has its type.
WithParams(n, params, body) ==
    [ok |-> n.ok,
     req |-> [n.req EXCEPT !.URL.RawQuery = Encode(params),
                           !.ContentType = IF body.kind = "nil" THEN << >> ELSE JSONType]]

\* Client.NewRequest (lines 277-303): [ok, req].
NewRequest(c, method, path, params, body) ==
    IF body.kind # "nil" /\ ~EncodeJSON(body).ok THEN [ok |-> FALSE, req |-> NoRequest]
    ELSE WithParams(HTTPNewRequest(method, c.Endpoint \o path,
                                   IF body.kind = "nil" THEN Nil
                                   ELSE EncodeJSON(body).bytes),
                    params, body)

\* The request the other operations build: the API key is written into the
\* URL's query.
KeyedRequest(c, path) ==
    HTTPNewRequest("GET", c.Endpoint \o path \o << "?" >> \o api_key \o << "=" >> \o c.APIKey,
                   Nil)

\* Client.Infographics of client_test.go (lines 392-410): the request is
\* signed, and a failure of Do is returned.
Infographics2(c, order, out) ==
    LET n == NewRequest(c, "GET", InfographicsPath, EmptyValues, NilTarget)
    IN  IF ~n.ok THEN NewRequestFailed(c, "infographics", InfographicsTarget)
        ELSE ReturnErr(Do2(c, "live", SignRequest2(c, n.req, order).req,
                           InfographicsTarget, out), <<>>)

\* Client.Infographic of client_test.go (lines 413-426): the request goes to
\* Do as it was built, and a failure of Do gives nil, nil.
Infographic2(c, id, out) ==
    LET n == KeyedRequest(c, InfographicPath(id))
    IN  IF ~n.ok THEN NewRequestFailed(c, "infographic", InfographicTarget)
        ELSE ReturnNilNil(Do2(c, "live", n.req, InfographicTarget, out), Nil)

\* Client.UserInfographics of client_test.go (lines 429-442).
UserInfographics2(c, id, out) ==
    LET n == KeyedRequest(c, UserInfographicsPath(id))
    IN  IF ~n.ok THEN NewRequestFailed(c, "infographics", InfographicsTarget)
        ELSE ReturnNilNil(Do2(c, "live", n.req, InfographicsTarget, out), <<>>)

\* Client.Themes of client_test.go (lines 445-458).
Themes2(c, out) ==
    LET n == KeyedRequest(c, ThemesPath)
    IN  IF ~n.ok THEN NewRequestFailed(c, "themes", ThemesTarget)
        ELSE ReturnNilNil(Do2(c, "live", n.req, ThemesTarget, out), <<>>)

\* ------------------------------------------ operations of client.go (1-139)
\* An option of NewClient: ClientOptHTTPClient or ClientOptEndpoint.
ClientOptHTTPClient(httpClient) == [field |-> "HTTPClient", value |-> httpClient]
ClientOptEndpoint(endpoint) == [field |-> "Endpoint", value |-> endpoint]

RECURSIVE ApplyOpts(_, _)
ApplyOpts(c, options) ==
    IF options = <<>> THEN c
    ELSE ApplyOpts([c EXCEPT ![Head(options).field] = Head(options).value], Tail(options))

\* c.httpClient.Do(req) inside signAndDo: what is sent and what comes back.
ClientDo(c, req, rt) ==
    [client |-> c, sent |-> << req >>, terr |-> rt.err, res |-> rt.res,
     ret |-> DoReturn(rt.res, rt.err, FALSE)]

\* Client.signAndDo (lines 90-101): SignRequest, then the transport.
SendSigned(c, req, out) == ClientDo(c, req, RoundTrip(req, out))

signAndDo(c, req, order, out) == SendSigned(c, SignRequest1(c, req, order).req, out)

\* The rest of an operation after json.NewDecoder(res.Body).Decode(&v):
\* dec = [err, val].  The error of the decoder is returned as it is.
ReturnDecoded(d, v, zero, dec) ==
    [client |-> d.client, sent |-> d.sent, terr |-> d.terr, res |-> d.res, do |-> d.ret,
     target |-> [v EXCEPT !.val = dec.val],
     val |-> IF dec.err # NoErr THEN zero ELSE dec.val, err |-> dec.err, panic |-> FALSE]

\* An operation from the return of signAndDo on: a failure gives nil, nil,
\* and a response is decoded whatever its status.
DecodeResponse(d, v, zero) ==
    IF d.ret.err # NoErr
    THEN [client |-> d.client, sent |-> d.sent, terr |-> d.terr, res |-> d.res,
          do |-> d.ret, target |-> v, val |-> zero, err |-> NoErr, panic |-> FALSE]
    ELSE ReturnDecoded(d, v, zero, Decode(v, d.res))

\* Client.Infographics of client.go, lines 103-120.
Infographics1(c, order, out) ==
    LET n == KeyedRequest(c, InfographicsPath)
    IN  IF ~n.ok THEN NewRequestFailed(c, "infographics", InfoghaphicsTarget)
        ELSE DecodeResponse(signAndDo(c, n.req, order, out), InfoghaphicsTarget, <<>>)

\* Client.Infographic of client.go, lines 122-139.
Infographic1(c, id, order, out) ==
    LET n == KeyedRequest(c, InfographicPath(id))
    IN  IF ~n.ok THEN NewRequestFailed(c, "infographic", InfoghaphicTarget)
        ELSE DecodeResponse(signAndDo(c, n.req, order, out), InfoghaphicTarget, Nil)

\* -------------------------------------------------------------------- state
VARIABLES
    client,   \* the Client: rev (which copy of the code it runs), setup (the
              \* sync.Once has run), HTTPClient, Endpoint, APIKey, APISecret
    reqs,     \* the two requests the caller holds, or NoReq
    signed,   \* for each of the two, the calls of SignRequest made on it
    call,     \* the call of Do or of an operation that has just returned
    trip,     \* the record last encoded and decoded again, with the outcome
    conc      \* concurrent callers of one client: the state of its sync.Once,
              \* the number of runs of the setup function, and each caller's
              \* position and the endpoint its request was built from

vars == << client, reqs, signed, call, trip, conc >>

Slots == { 1, 2 }

\* The copies of the client in the repository: client.go lines 1-139,
\* client_test.go lines 244-458 and client.go lines 141-359.
Revisions == { "client.go:1", "client_test.go:244", "client.go:141" }

NoReq == NoRequest

NoOut == [Err |-> FALSE, StatusCode |-> 0, Body |-> <<>>, ReadErr |-> FALSE]

NoCall ==
    [op |-> "none", ctx |-> "live", out |-> NoOut, client |-> <<>>, sent |-> <<>>,
     terr |-> NoErr, res |-> NilRes, do |-> DoReturn(NilRes, NoErr, FALSE),
     given |-> NilTarget, target |-> NilTarget, val |-> <<>>, err |-> NoErr,
     panic |-> FALSE]

\* The goroutines that share one client.
Goroutines == 1..NumGoroutines

NoConc ==
    [once |-> "new", setups |-> 0, pc |-> [g \in Goroutines |-> "NewRequest"],
     url |-> [g \in Goroutines |-> Nil]]

\* ------------------------------------------------------------------- inputs
APIKey == << "K", "1" >>
APISecret == << "s", "h", "h" >>
ServerURL == << "http", ":", "/", "/", "127.0.0.1", "/", "p" >>

\* NewClient of client.go, lines 27-41.
NewClient(apiKey, apiSecret, options) ==
    ApplyOpts([rev |-> "client.go:1", setup |-> FALSE,
               HTTPClient |-> "http.DefaultClient", Endpoint |-> DefaultEndpoint,
               APIKey |-> apiKey, APISecret |-> apiSecret], options)

\* The clients a caller may construct.  With NewClient it gives options;
\* with the struct of the later copies it sets the fields, and Do defaults
\* the zero values of HTTPClient and Endpoint.  An endpoint may be one
\* url.Parse rejects.
InitClients ==
    { NewClient(APIKey, APISecret, options) :
        options \in { <<>>,
                      << ClientOptEndpoint(ServerURL) >>,
                      << ClientOptHTTPClient("custom"), ClientOptEndpoint(<< "%" >>) >>,
                      << ClientOptHTTPClient("custom"), ClientOptEndpoint(<< "%" >>),
                         ClientOptEndpoint(ServerURL) >> } }
    \cup
    { [rev |-> r, setup |-> FALSE, HTTPClient |-> h, Endpoint |-> e, APIKey |-> APIKey,
       APISecret |-> APISecret] :
        r \in Revisions \ { "client.go:1" },
        h \in { "nil", "custom" }, e \in { <<>>, ServerURL, << "%" >> } }

\* Raw queries: none, two parameters, a value with a space, a signature or
\* a key already there, a key with two values.
Queries ==
    { <<>>,
      << "b", "=", "2", "&", "a", "=", "1" >>,
      << "a", "=", "x", "+", "y" >>,
      api_sig \o << "=", "z", "z" >>,
      api_key \o << "=", "o", "&", "a", "=", "1" >>,
      << "a", "=", "1", "&", "a", "=", "2" >> }

FormBody == << "t", "=", "1", "&", "s", "=", "2" >>

\* The method, raw query and body of the requests a caller signs.
SignInputs ==
    { [Method |-> "GET", RawQuery |-> q, Body |-> Nil] : q \in Queries }
    \cup { [Method |-> "DELETE", RawQuery |-> << "a", "=", "1" >>, Body |-> Nil] }
    \cup { [Method |-> "POST", RawQuery |-> q, Body |-> b] :
             q \in { <<>>, api_sig \o << "=", "z", "z" >> }, b \in { Nil, FormBody } }

RECURSIVE Reverse(_)
Reverse(s) == IF s = <<>> THEN <<>> ELSE Reverse(Tail(s)) \o << Head(s) >>

\* The same key=value pieces in the order given and in the reverse order.
Reorders(q) == IF q = Nil THEN { Nil } ELSE { q, Join(Reverse(Split(q, "&")), << "&" >>) }

\* A request as a caller builds it for signing, with a form-encoded body
\* when it has a body.
UserRequest(method, rawQuery, body) ==
    [HTTPNewRequest(method, ServerURL, body).req EXCEPT
        !.URL.RawQuery = rawQuery,
        !.ContentType = IF body = Nil THEN <<>> ELSE FormType]

NotFoundBody == << "n", "o", "t", " ", "f", "o", "u", "n", "d" >>

ResponseBodies ==
    { <<>>,
      NotFoundBody,
      << "[", "]" >>,
      << "{", "\"id\"", ":", "1", ",", "\"title\"", ":", "\"One\"", "}" >>,
      << "[", "{", "\"id\"", ":", "1", "}", "]" >>,
      << "{", "\"id\"", ":", "\"One\"", "}" >> }

StatusCodes == { 101, 199, 200, 299, 300, 404 }

\* What the transport may do with a request: fail, or answer.
Outcomes ==
    { [Err |-> TRUE, StatusCode |-> 0, Body |-> <<>>, ReadErr |-> FALSE] }
    \cup { [Err |-> FALSE, StatusCode |-> code, Body |-> b, ReadErr |-> r] :
             code \in StatusCodes, b \in ResponseBodies, r \in BOOLEAN }

Contexts == { "live", "canceled", "deadline" }

Targets == { NilTarget, WriterTarget, SampleTarget }

\* The requests a caller hands to Do directly: one built by
\* httptest.NewRequest for a server's URL, one built by http.NewRequest for
\* it, and one for a path alone.
DoRequests ==
    { [HTTPNewRequest("GET", ServerURL, Nil).req EXCEPT !.RequestURI = ServerURL],
      HTTPNewRequest("GET", ServerURL, Nil).req,
      HTTPNewRequest("GET", << "/", "p" >>, Nil).req }

IDs == { << "1" >>, << "12345" >> }

\* The orders in which the map of an operation's parameters may be ranged
\* over: api_key is the one parameter of the request an operation signs.
OpOrders == KeyOrders({ api_key })

\* ------------------------------------------------- the copies of the client
\* The parameter set a call of SignRequest ranges over.
SignedData(c, req) ==
    CASE c.rev = "client.go:1" -> Query(req.URL)
      [] c.rev = "client_test.go:244" -> SetAPIKey(Query(req.URL), c.APIKey)
      [] OTHER -> SignData(c, req)

\* The parameter set a request carries, as SignRequest reads it.
Carried(c, req) ==
    IF c.rev = "client.go:141" THEN ReadParams(req) ELSE Query(req.URL)

SignRequestOf(c, req, order) ==
    CASE c.rev = "client.go:1" -> SignRequest1(c, req, order)
      [] c.rev = "client_test.go:244" -> SignRequest2(c, req, order)
      [] OTHER -> SignRequest(c, req, order)

DoOf(c, ctx, req, v, out) ==
    IF c.rev = "client_test.go:244" THEN Do2(c, ctx, req, v, out)
    ELSE Do(c, ctx, req, v, out)

InfographicsOf(c, order, out) ==
    CASE c.rev = "client.go:1" -> Infographics1(c, order, out)
      [] c.rev = "client_test.go:244" -> Infographics2(c, order, out)
      [] OTHER -> Infographics(c, order, out)

InfographicOf(c, id, order, out) ==
    CASE c.rev = "client.go:1" -> Infographic1(c, id, order, out)
      [] c.rev = "client_test.go:244" -> Infographic2(c, id, out)
      [] OTHER -> Infographic(c, id, order, out)

UserInfographicsOf(c, id, order, out) ==
    IF c.rev = "client_test.go:244" THEN UserInfographics2(c, id, out)
    ELSE UserInfographics(c, id, order, out)

ThemesOf(c, order, out) ==
    IF c.rev = "client_test.go:244" THEN Themes2(c, out) ELSE Themes(c, order, out)

\* ------------------------------------------- the readers of an infographic
format == << "f", "o", "r", "m", "a", "t" >>

\* PDFReader, PNGReader and HTMLReader: the format each asks reader for.
ReaderFormats ==
    [ op \in { "PDFReader", "PNGReader", "HTMLReader" } |->
        CASE op = "PDFReader" -> << "p", "d", "f" >>
          [] op = "PNGReader" -> << "p", "n", "g" >>
          [] OTHER -> << "h", "t", "m", "l" >> ]

\* The URL reader asks for: "%s/%s/%d?api_key=%s&format=%s".
ReaderURL(c, id, fmt) ==
    c.Endpoint \o InfographicPath(id) \o << "?" >> \o api_key \o << "=" >> \o c.APIKey
    \o << "&" >> \o format \o << "=" >> \o fmt

\* The io.Reader that is the body of a response: its bytes, and whether it
\* has been closed.
BodyReader(res) == [Body |-> res.Body, Closed |-> res.Closed]

\* A nil io.Reader.
NilReader == [Body |-> Nil, Closed |-> FALSE]

\* "if err != nil { return nil, err }; return res.Body, nil" after Do.
ReturnBody(d) ==
    IF d.ret.err # NoErr \/ d.ret.panic THEN OpReturn(d, NilReader, d.ret.err)
    ELSE OpReturn(d, BodyReader(d.ret.res), NoErr)

\* Infographic.reader: the request is signed and given to Do with a nil v,
\* and the body of the response Do returns is the reader.
reader(c, id, fmt, order, out) ==
    LET n == HTTPNewRequest("GET", ReaderURL(c, id, fmt), Nil)
    IN  IF ~n.ok THEN NewRequestFailed(c, "infographic PDF reader", NilTarget)
        ELSE ReturnBody(DoOf(c, "live", SignRequestOf(c, n.req, order).req, NilTarget, out))

\* The orders in which the map of a reader's parameters may be ranged over.
ReaderOrders == KeyOrders({ api_key, format })

\* The payloads given to UnmarshalJSON: an object of one member for every
\* field, with a value of the field's type or of another, and objects of
\* none and of two members.
PayloadValues ==
    { "1", "1.5", "99", "true", "null", "\"One\"", "\"//e/1\"", "\"%zz\"",
      "\"2021-03-04T05:06:07Z\"" }

Payloads ==
    { << "{", Quote(<< InfographicFields[i].name >>), ":", tok, "}" >> :
         i \in 1..Len(InfographicFields), tok \in PayloadValues }
    \cup { << "{", "}" >>,
           << "{", "\"id\"", ":", "1", ",", "\"title\"", ":", "\"One\"", "}" >>,
           << "{", "\"id\"", ":", "1", ",", "\"title\"", ":", "1", "}" >> }

\* The paths and the body values given to NewRequest: a path, and one with
\* a query of its own; no body, two structs, and a channel.
RequestPaths == { InfographicsPath, InfographicsPath \o << "?", "x", "=", "1" >> }

ChanBody == [kind |-> "chan", val |-> [Id |-> <<>>, Label |-> <<>>]]

Bodies ==
    { NilTarget, ChanBody, SampleTarget,
      [kind |-> "sample", val |-> [Id |-> << "One" >>, Label |-> << "/", "/", "e", "/", "1" >>]] }

\* The records of the tests of types_test.go, and the same with a
\* modification time, without the URLs, or with the zero values.
SampleURL == ParseURL(<< "/", "/", "e", "/", "1" >>).url
SampleTime == << "2021-03-04T05:06:07Z" >>

Infographics13 ==
    { [Id |-> id, Title |-> << "One" >>, Thumbnail |-> th, ThemeId |-> "99",
       Published |-> pub, Modified |-> mod, URL |-> u] :
         id \in { "1" }, th \in { NilURL, SampleURL }, pub \in BOOLEAN,
         mod \in { ZeroTime, SampleTime }, u \in { NilURL, SampleURL } }
      \cup { ZeroInfographic }

Themes13 ==
    { [Id |-> "1", Title |-> title, Thumbnail |-> th] :
         title \in { << >>, << "One" >> }, th \in { NilURL, SampleURL } }
      \cup { ZeroTheme }

RecordsOf(type) == IF type \in { "Theme", "Theme1" } THEN Themes13 ELSE Infographics13

\* ------------------------------------------------------------------ actions
Idle == call.op = "none" /\ trip = NoTrip /\ \A s \in Slots : reqs[s] = NoReq

Init ==
    /\ client \in InitClients
    /\ reqs = [s \in Slots |-> NoReq]
    /\ signed = [s \in Slots |-> <<>>]
    /\ call = NoCall
    /\ trip = NoTrip
    /\ conc = NoConc

\* The caller builds two requests for the server its client is configured
\* for, with the same method, URL and parameters, the parameters of the
\* second possibly in another order.
NewRequests ==
    /\ Idle
    /\ client.Endpoint = ServerURL
    /\ \E in \in SignInputs :
       \E q2 \in Reorders(in.RawQuery), b2 \in Reorders(in.Body) :
          reqs' = [s \in Slots |->
                      IF s = 1 THEN UserRequest(in.Method, in.RawQuery, in.Body)
                      ELSE UserRequest(in.Method, q2, b2)]
    /\ UNCHANGED << client, signed, call, trip, conc >>

\* What a call of SignRequest leaves with the caller: r is the call's
\* account, kept with the request before the call, the parameters it
\* carried and whether the map yielded the keys in sorted order.
Sign(s, order, r) ==
    /\ reqs' = [reqs EXCEPT ![s] = r.req]
    /\ signed' = [signed EXCEPT ![s] =
          Append(@, [before |-> reqs[s], carried |-> Carried(client, reqs[s]),
                     inOrder |-> (order = r.keys), data |-> r.data, keys |-> r.keys,
                     params |-> r.params, sig |-> r.sig, value |-> r.value])]

\* c.SignRequest(req) on one of the two requests.
CallSignRequest(s) ==
    /\ reqs[s] # NoReq
    /\ Len(signed[s]) < MaxSigns
    /\ \E order \in KeyOrders(DOMAIN SignedData(client, reqs[s])) :
          Sign(s, order, SignRequestOf(client, reqs[s], order))
    /\ UNCHANGED << client, call, trip, conc >>

\* A call that has returned (or panicked): r is its account.
Returned(op, ctx, given, out, r) ==
    /\ client' = r.client
    /\ call' = [op |-> op, ctx |-> ctx, out |-> out, client |-> client, sent |-> r.sent,
                terr |-> r.terr, res |-> r.res, do |-> r.do, given |-> given,
                target |-> r.target, val |-> r.val, err |-> r.err, panic |-> r.panic]

\* The account of a direct call of Do: its error is the call's.
DoAccount(d) == OpReturn(d, <<>>, d.ret.err)

\* c.Do(ctx, req, v) on a request of the caller's.
CallDo ==
    /\ Idle
    /\ client.rev # "client.go:1"
    /\ \E req \in DoRequests, ctx \in Contexts, v \in Targets, out \in Outcomes :
          Returned("Do", ctx, v, out, DoAccount(DoOf(client, ctx, req, v, out)))
    /\ UNCHANGED << reqs, signed, trip, conc >>

CallInfographics ==
    /\ Idle
    /\ \E out \in Outcomes, order \in OpOrders :
          Returned("Infographics", "live", InfographicsTarget, out,
                   InfographicsOf(client, order, out))
    /\ UNCHANGED << reqs, signed, trip, conc >>

CallInfographic ==
    /\ Idle
    /\ \E id \in IDs, out \in Outcomes, order \in OpOrders :
          Returned("Infographic", "live", InfographicTarget, out,
                   InfographicOf(client, id, order, out))
    /\ UNCHANGED << reqs, signed, trip, conc >>

CallUserInfographics ==
    /\ Idle
    /\ client.rev # "client.go:1"
    /\ \E id \in IDs, out \in Outcomes, order \in OpOrders :
          Returned("UserInfographics", "live", InfographicsTarget, out,
                   UserInfographicsOf(client, id, order, out))
    /\ UNCHANGED << reqs, signed, trip, conc >>

CallThemes ==
    /\ Idle
    /\ client.rev # "client.go:1"
    /\ \E out \in Outcomes, order \in OpOrders :
          Returned("Themes", "live", ThemesTarget, out, ThemesOf(client, order, out))
    /\ UNCHANGED << reqs, signed, trip, conc >>

\* i.PDFReader(client), i.PNGReader(client) or i.HTMLReader(client) on an
\* infographic with the id 1.
CallReader ==
    /\ Idle
    /\ client.rev # "client.go:1"
    /\ \E op \in DOMAIN ReaderFormats, out \in Outcomes, order \in ReaderOrders :
          Returned(op, "live", NilTarget, out,
                   reader(client, << "1" >>, ReaderFormats[op], order, out))
    /\ UNCHANGED << reqs, signed, trip, conc >>

\* The account of a call of UnmarshalJSON that gave d = [err, val].
UnmarshalAccount(c, d) ==
    [client |-> c, sent |-> <<>>, terr |-> NoErr, res |-> NilRes,
     do |-> DoReturn(NilRes, NoErr, FALSE), target |-> NilTarget,
     val |-> d.val, err |-> d.err, panic |-> FALSE]

\* r.UnmarshalJSON(payload) on a new record of one of the types.
CallUnmarshalJSON ==
    /\ Idle
    /\ \E type \in RecordTypes, payload \in Payloads :
          Returned("UnmarshalJSON", "live", [kind |-> type, val |-> payload], NoOut,
                   UnmarshalAccount(client,
                                    UnmarshalOf(type, ZeroOf(type), ParseValue(payload).val)))
    /\ UNCHANGED << reqs, signed, trip, conc >>

\* The account of a call of NewRequest that gave n = [ok, req].
NewRequestAccount(c, n) ==
    [client |-> c, sent |-> <<>>, terr |-> NoErr, res |-> NilRes,
     do |-> DoReturn(NilRes, NoErr, FALSE), target |-> NilTarget,
     val |-> IF n.ok THEN n.req ELSE NoRequest,
     err |-> IF n.ok THEN NoErr ELSE Err("request", << "new request" >>),
     panic |-> FALSE]

\* c.NewRequest(method, path, params, body) by a caller.
CallNewRequest ==
    /\ Idle
    /\ client.rev = "client_test.go:244"
    /\ \E method \in { "GET", "POST" }, path \in RequestPaths, q \in Queries,
          body \in Bodies :
          Returned("NewRequest", "live",
                   [kind |-> "request",
                    val |-> [method |-> method, path |-> path, params |-> ParseQuery(q),
                             body |-> body]],
                   NoOut,
                   NewRequestAccount(client, NewRequest(client, method, path,
                                                        ParseQuery(q), body)))
    /\ UNCHANGED << reqs, signed, trip, conc >>

\* A record is written with MarshalJSON and read back with UnmarshalJSON.
CallRoundTrip ==
    /\ Idle
    /\ \E type \in RecordTypes : \E rec \in RecordsOf(type) :
          trip' = RoundTripOf(type, rec, MarshalOf(type, rec))
    /\ UNCHANGED << client, reqs, signed, call, conc >>

\* The caller is done with the requests it holds or with the call that
\* returned.  A call that panicked has ended the program.
Release ==
    /\ ~Idle
    /\ ~call.panic
    /\ ~trip.panic
    /\ reqs' = [s \in Slots |-> NoReq]
    /\ signed' = [s \in Slots |-> <<>>]
    /\ call' = NoCall
    /\ trip' = NoTrip
    /\ UNCHANGED << client, conc >>

Next ==
    \/ NewRequests
    \/ \E s \in Slots : CallSignRequest(s)
    \/ CallDo
    \/ CallInfographics
    \/ CallInfographic
    \/ CallUserInfographics
    \/ CallThemes
    \/ CallRoundTrip
    \/ CallNewRequest
    \/ CallUnmarshalJSON
    \/ CallReader
    \/ Release

Spec == Init /\ [][Next]_vars

\* -------------------------------------------------------- concurrent callers
\* Several goroutines call Infographics on one client of the later copies.
\* Each builds its request from c.Endpoint, signs it and calls Do, whose
\* first statement is c.setup.Do(func): the first caller to arrive runs the
\* function, statement by statement, and callers arriving meanwhile wait
\* for it to return.
InitConc ==
    /\ client \in { c \in InitClients : c.rev # "client.go:1" }
    /\ reqs = [s \in Slots |-> NoReq]
    /\ signed = [s \in Slots |-> <<>>]
    /\ call = NoCall
    /\ trip = NoTrip
    /\ conc = NoConc

At(g, pc) == conc.pc[g] = pc

Goto(g, pc) == [conc EXCEPT !.pc[g] = pc]

\* fmt.Sprintf("%s/%s", c.Endpoint, "infographics") and NewRequest's
\* path = c.Endpoint + path: the caller reads c.Endpoint.
ReadEndpoint(g) ==
    /\ At(g, "NewRequest")
    /\ conc' = [conc EXCEPT !.pc[g] = "SignRequest", !.url[g] = client.Endpoint]
    /\ UNCHANGED << client, reqs, signed, call, trip >>

\* c.SignRequest(req) reads the key and the secret only.
SignStep(g) ==
    /\ At(g, "SignRequest")
    /\ conc' = Goto(g, "Do")
    /\ UNCHANGED << client, reqs, signed, call, trip >>

\* c.setup.Do(func) by the first caller: it takes the Once and enters func.
OnceEnter(g) ==
    /\ At(g, "Do")
    /\ conc.once = "new"
    /\ conc' = [conc EXCEPT !.once = "running", !.setups = @ + 1,
                            !.pc[g] = "SetHTTPClient"]
    /\ UNCHANGED << client, reqs, signed, call, trip >>

\* Lines 176-178 of Do.
SetHTTPClient(g) ==
    /\ At(g, "SetHTTPClient")
    /\ client' = [client EXCEPT !.HTTPClient = IF @ = "nil" THEN "http.DefaultClient" ELSE @]
    /\ conc' = Goto(g, "SetEndpoint")
    /\ UNCHANGED << reqs, signed, call, trip >>

\* Lines 180-182 of Do.
SetEndpoint(g) ==
    /\ At(g, "SetEndpoint")
    /\ client' = [client EXCEPT !.Endpoint = IF @ = <<>> THEN DefaultEndpoint ELSE @]
    /\ conc' = Goto(g, "Return")
    /\ UNCHANGED << reqs, signed, call, trip >>

\* func returns: the Once is done and its waiters go on.
OnceReturn(g) ==
    /\ At(g, "Return")
    /\ client' = [client EXCEPT !.setup = TRUE]
    /\ conc' = [conc EXCEPT !.once = "done", !.pc[g] = "Transport"]
    /\ UNCHANGED << reqs, signed, call, trip >>

\* c.setup.Do(func) once the Once is done: func is not called.
OnceSkip(g) ==
    /\ At(g, "Do")
    /\ conc.once = "done"
    /\ conc' = Goto(g, "Transport")
    /\ UNCHANGED << client, reqs, signed, call, trip >>

\* c.HTTPClient.Do(req) and the rest of the call; the caller may call again.
Transport(g) ==
    /\ At(g, "Transport")
    /\ conc' = [conc EXCEPT !.pc[g] = "NewRequest", !.url[g] = Nil]
    /\ UNCHANGED << client, reqs, signed, call, trip >>

NextConc ==
    \E g \in Goroutines :
        \/ ReadEndpoint(g)
        \/ SignStep(g)
        \/ OnceEnter(g)
        \/ SetHTTPClient(g)
        \/ SetEndpoint(g)
        \/ OnceReturn(g)
        \/ OnceSkip(g)
        \/ Transport(g)

SpecConc == InitConc /\ [][NextConc]_vars

\* ------------------------------------------------------------------- claims
\* The calls of SignRequest made on the requests the caller holds.
Entries == UNION { { signed[s][i] : i \in 1..Len(signed[s]) } : s \in Slots }

Operations == { "Infographics", "Infographic", "UserInfographics", "Themes" }

\* C1: every request that Infographics, Infographic, UserInfographics or
\* Themes hands to the transport carries an api_key parameter equal to the
\* client's API key and an api_sig parameter.
C1_SentRequestsAreSigned ==
    call.op \in Operations =>
        \A i \in 1..Len(call.sent) :
            /\ Get(Query(call.sent[i].URL), api_key) = call.client.APIKey
            /\ Get(Query(call.sent[i].URL), api_sig) # <<>>

\* C2: the canonical string that SignRequest signs has no api_sig parameter,
\* and after the call the request carries exactly one api_sig value,
\* whatever the request carried on entry.
C2_SignatureNotInItsOwnInput ==
    \A e \in Entries :
        /\ \A i \in 1..Len(e.keys) : e.keys[i] # api_sig
        /\ Len(e.data[api_sig]) = 1

\* C3: the api_sig value attached by SignRequest is the hex or base64
\* encoding of the HMAC-SHA1 digest of the canonical string under the API
\* secret, and nothing else.
C3_SignatureIsDigestOfCanonicalString ==
    \A e \in Entries :
        e.value \in { Hex(HMAC(client.APISecret, e.sig)),
                      Base64(HMAC(client.APISecret, e.sig)) }

C5_ParameterOrderDoesNotMatter ==
    \A e1 \in Entries, e2 \in Entries :
        ( /\ e1.before.Method = e2.before.Method
          /\ e1.before.URL.Base = e2.before.URL.Base
          /\ e1.carried = e2.carried )
        => e1.sig = e2.sig /\ e1.value = e2.value

\* C6: after SignRequest the request's api_key parameter has the client's
\* API key as its value, whatever it carried on entry, and api_key=value is
\* one of the pairs of the parameter string that was signed.
C6_APIKeyInsertedBeforeSigning ==
    \A e \in Entries :
        /\ api_key \in DOMAIN e.data
        /\ e.data[api_key] = << client.APIKey >>
        /\ \E i \in 1..Len(Split(e.params, "&")) :
               Split(e.params, "&")[i] = api_key \o << "=" >> \o client.APIKey

\* C7: for a response whose status is above 299, Do returns no response and
\* an error whose text is the response body, byte for byte.
C7_ErrorTextIsResponseBody ==
    ( /\ call.op = "Do"
      /\ ~call.res.nil
      /\ call.res.StatusCode > 299
      /\ ~call.res.ReadErr )
    => call.do.res = NilRes /\ call.do.err # NoErr /\ call.do.err.text = call.res.Body

\* C8: for every response whose status lies outside [200,299], Do returns a
\* failure, and the caller's target is left as it was given.
C8_SuccessOnlyFor2xx ==
    ( /\ call.op = "Do"
      /\ ~call.res.nil
      /\ call.res.StatusCode \notin 200..299 )
    => call.do.err # NoErr /\ call.target = call.given

\* C9: an operation that returns after the transport call or Do has failed
\* inside it returns a non-nil error, and no operation sends its request
\* twice.
C9_NoFailureSuppressed ==
    (call.op \in Operations /\ ~call.panic) =>
        /\ (call.terr # NoErr \/ call.do.err # NoErr) => call.err # NoErr
        /\ Len(call.sent) <= 1

\* C10: when the transport call inside Do fails, Do returns an error and
\* does not go on to the absent response: the error is the context's when
\* the context is done, and the transport's otherwise.
C10_TransportFailureIsReturned ==
    (call.op = "Do" /\ call.terr # NoErr)
    => /\ ~call.panic
       /\ call.do.err = IF call.ctx # "live" THEN CtxErr(call.ctx) ELSE call.terr

\* C11: when the status is a success and the target is an io.Writer, the
\* writer receives exactly the bytes of the response body, valid JSON or
\* not, and Do returns the response with a nil error.
C11_WriterReceivesBody ==
    ( /\ call.op = "Do"
      /\ ~call.res.nil
      /\ call.res.StatusCode \in 200..299
      /\ call.given.kind = "writer" )
    => /\ call.target.val = call.given.val \o call.out.Body
       /\ call.do.err = NoErr
       /\ ~call.do.res.nil
       /\ call.do.res.StatusCode = call.out.StatusCode

\* A body that is no JSON has been copied to a writer.
C11_Witness ==
    /\ call.op = "Do"
    /\ call.res.StatusCode = 200
    /\ call.given.kind = "writer"
    /\ call.out.Body = NotFoundBody
    /\ call.target.val = NotFoundBody

\* C12: when the status is a success and the target is a value to decode
\* into, an empty body gives no error and leaves the target as it was, and
\* a body that is not empty and is no JSON gives a decode error.
C12_EmptyBodyIsNoError ==
    ( /\ call.op = "Do"
      /\ ~call.res.nil
      /\ call.res.StatusCode \in 200..299
      /\ call.given.kind \notin { "nil", "writer" }
      /\ ~call.out.ReadErr )
    => /\ call.out.Body = <<>> => call.do.err = NoErr /\ call.target = call.given
       /\ (call.out.Body # <<>> /\ ~ParseValue(call.out.Body).ok)
              => call.do.err # NoErr /\ call.do.res.nil

\* An empty body has been decoded into a struct.
C12_Witness ==
    /\ call.op = "Do"
    /\ call.res.StatusCode = 200
    /\ ~call.res.nil
    /\ call.given = SampleTarget
    /\ call.out.Body = <<>>
    /\ ~call.out.ReadErr
    /\ call.do.err = NoErr

\* C13: an infographic record written with MarshalJSON and read back with
\* UnmarshalJSON is read without an error and equals the record written,
\* field by field (id, title, thumbnail_url, theme_id, published,
\* date_modified, url).
C13_RoundTripYieldsTheRecord ==
    trip.type = "Infographic" =>
        /\ ~trip.panic
        /\ trip.err = NoErr
        /\ trip.val = trip.rec

\* C14: when Do or an operation has returned, the body of the response its
\* send acquired is closed, whatever the path: decode, copy, status
\* failure or decode error.
C14_ResponseBodyClosed ==
    (call.op # "none" /\ ~call.panic /\ ~call.res.nil) => call.res.Closed

\* The caller's next statement reads a field of the client.
ReadsEndpoint(g) == At(g, "NewRequest")
ReadsHTTPClient(g) == At(g, "Transport")

\* The caller's next statement, inside the setup function, writes the field.
WritesEndpoint(g) == At(g, "SetEndpoint") /\ client.Endpoint = <<>>
WritesHTTPClient(g) == At(g, "SetHTTPClient") /\ client.HTTPClient = "nil"

\* C15: with several callers on a fresh client the setup function runs at
\* most once, a caller at its transport call finds the setup completed and
\* both fields defaulted, and no caller is about to read Endpoint or
\* HTTPClient while another caller's setup is about to write it.
C15_ConfigureOnceIsSafe ==
    /\ conc.setups <= 1
    /\ \A g \in Goroutines :
          At(g, "Transport") =>
              client.setup /\ client.HTTPClient # "nil" /\ client.Endpoint # <<>>
    /\ \A g \in Goroutines : \A h \in Goroutines \ { g } :
          /\ ~(ReadsEndpoint(g) /\ WritesEndpoint(h))
          /\ ~(ReadsHTTPClient(g) /\ WritesHTTPClient(h))

HasPrefix(str, prefix) ==
    Len(str) >= Len(prefix) /\ SubSeq(str, 1, Len(prefix)) = prefix

\* The base URL a client is configured for: its endpoint, or the default
\* when none was given.
ConfiguredEndpoint(c) == IF c.Endpoint = <<>> THEN DefaultEndpoint ELSE c.Endpoint

\* C16: every request an operation hands to the transport, the first one
\* of a client included, goes to the endpoint the client was configured
\* with, and to https://infogr.am/service/v1 when none was configured.
C16_RequestsGoToTheEndpoint ==
    (call.op \in Operations /\ call.sent # <<>>) =>
        HasPrefix(call.sent[1].URL.Base, ConfiguredEndpoint(call.client))

\* The parameters a request carries: those of its query for GET and DELETE,
\* and those of its form otherwise.
Parameters(req) ==
    IF IsQueryMethod(req.Method) THEN Query(req.URL) ELSE ParseForm(req).Form

\* A parameter set without the authentication parameters.
Others(data) == [k \in DOMAIN data \ { api_key, api_sig } |-> data[k]]

\* The request the i-th call of SignRequest on slot s left.
AfterSign(s, i) == IF i < Len(signed[s]) THEN signed[s][i + 1].before ELSE reqs[s]

\* C17: SignRequest leaves the method and the path of the request as they
\* were, and every parameter other than api_key and api_sig with all the
\* values it had.
C17_SignRequestChangesOnlyAuthentication ==
    \A s \in Slots : \A i \in 1..Len(signed[s]) :
        /\ AfterSign(s, i).Method = signed[s][i].before.Method
        /\ AfterSign(s, i).URL.Base = signed[s][i].before.URL.Base
        /\ Others(Parameters(AfterSign(s, i))) = Others(Parameters(signed[s][i].before))

\* A request with a key of two values has been signed and carries a
\* signature.
C17_Witness ==
    \E s \in Slots :
        /\ Len(signed[s]) >= 1
        /\ \E k \in DOMAIN Parameters(signed[s][1].before) :
              Len(Parameters(signed[s][1].before)[k]) = 2
        /\ api_sig \in DOMAIN Parameters(AfterSign(s, 1))

\* What precedes the "?" of a string, or all of it.
BeforeQuery(str) ==
    IF IndexOf(str, "?") = 0 THEN str ELSE SubSeq(str, 1, IndexOf(str, "?") - 1)

\* The bytes are the JSON text of the value followed by the newline that
\* ends it: decoded into a new struct, the text gives the value.
IsJSONOf(bytes, value) ==
    /\ bytes # << >>
    /\ bytes[Len(bytes)] = "\n"
    /\ Unparsed([value EXCEPT !.val = SampleTarget.val],
                ParseValue(SubSeq(bytes, 1, Len(bytes) - 1)))
          = [err |-> NoErr, val |-> value.val]

\* C18: the request NewRequest returns has the method given, the endpoint
\* followed by the path for its URL and exactly the params given for its
\* query; with a body value it has the value's JSON text for its body and
\* the Content-Type application/json, and with none it has no body and no
\* Content-Type.
C18_NewRequestBuildsTheRequest ==
    (call.op = "NewRequest" /\ call.err = NoErr) =>
        /\ call.val.Method = call.given.val.method
        /\ call.val.URL.Base = call.client.Endpoint \o BeforeQuery(call.given.val.path)
        /\ Query(call.val.URL) = call.given.val.params
        /\ call.given.val.body.kind = "nil" =>
              call.val.Body = Nil /\ call.val.ContentType = << >>
        /\ call.given.val.body.kind # "nil" =>
              /\ IsJSONOf(call.val.Body, call.given.val.body)
              /\ call.val.ContentType = JSONType

\* A request has been built with params of two keys and a struct for its
\* body.
C18_Witness ==
    /\ call.op = "NewRequest"
    /\ call.err = NoErr
    /\ Cardinality(DOMAIN call.given.val.params) = 2
    /\ call.given.val.body.kind = "sample"
    /\ call.given.val.body.val.Id # << >>

\* The parameter string of a parameter set: key=value for every key, in
\* the byte-wise order of the keys, key and value percent-encoded, with
\* "&" between the pairs.
ParameterString(data) ==
    Join([i \in 1..Len(SortedKeys(DOMAIN data)) |->
             QueryEscape(SortedKeys(DOMAIN data)[i]) \o << "=" >>
             \o QueryEscape(Get(data, SortedKeys(DOMAIN data)[i]))],
         << "&" >>)

\* The forms of the second component that do not depend on the parameters:
\* the path, or the URL without its query, percent-encoded.
URLComponents(u) ==
    { EscapedPath(u), QueryEscape(EscapedPath(u)), QueryEscape(u.Base) }

\* C19: the string SignRequest signs is the method, "&", the percent-encoded
\* path or URL, "&" and the percent-encoded parameter string; the
\* parameter string has every parameter once, in key order, key and value
\* percent-encoded, with no separator before the first or after the last.
C19_CanonicalString ==
    \A e \in Entries :
        /\ e.params = ParameterString(SignedData(client, e.before))
        /\ \E component \in URLComponents(e.before.URL) :
              e.sig = << e.before.Method, "&" >> \o component \o << "&" >>
                      \o QueryEscape(e.params)

\* A POST or PUT request with a form-encoded body that has not been read.
HasFormBody(req) ==
    /\ req.Method \in { "POST", "PUT" }
    /\ req.Body # Nil
    /\ req.ContentType = FormType
    /\ ~req.BodyRead

\* C20: after SignRequest of client.go (lines 224-275) a request with a
\* form-encoded body has in its body, still to be read, the parameters the
\* body had with api_key and api_sig; a GET or DELETE request has in its
\* query the parameters the query had with api_key and api_sig.
C20_ParametersWrittenBackWhereRead ==
    \A s \in Slots : \A i \in 1..Len(signed[s]) :
        /\ (client.rev = "client.go:141" /\ HasFormBody(signed[s][i].before)) =>
              /\ ~AfterSign(s, i).BodyRead
              /\ Others(ParseQuery(AfterSign(s, i).Body))
                    = Others(ParseQuery(signed[s][i].before.Body))
              /\ { api_key, api_sig } \subseteq DOMAIN ParseQuery(AfterSign(s, i).Body)
        /\ IsQueryMethod(signed[s][i].before.Method) =>
              /\ signed[s][i].carried = Query(signed[s][i].before.URL)
              /\ Query(AfterSign(s, i).URL) = signed[s][i].data

\* C21: when PDFReader, PNGReader or HTMLReader returns a reader and no
\* error, the response body the reader is has not been closed, and neither
\* has the body of the response Do returned.
C21_ReaderIsNotClosed ==
    (call.op \in DOMAIN ReaderFormats /\ ~call.panic /\ call.err = NoErr) =>
        ~call.val.Closed /\ ~call.do.res.Closed

\* The fields a payload of the type may hold.
PayloadFields(type) == IF type \in { "Theme", "Theme1" } THEN ThemeFields ELSE InfographicFields

\* A value that has the type or the format of the field: an integer for id
\* and theme_id, a string for title, a boolean for published, a string
\* that parses as a URL for thumbnail_url and url, and an RFC 3339 string
\* for date_modified.
WellTyped(f, v) ==
    CASE f.type = "int" -> v.t = "number" /\ v.tok \in { "0", "1", "99" }
      [] f.type = "bool" -> v.t = "bool"
      [] f.type = "string" -> v.t = "string"
      [] f.type = "url" -> v.t = "string" /\ ParseURL(JSONString[v.tok]).ok
      [] OTHER -> v.t = "string" /\ JSONString[v.tok] \in RFC3339Strings

\* The value a record holds for a field decoded from a well-typed value.
Held(f, v) ==
    CASE f.type = "int" -> v.tok
      [] f.type = "bool" -> v.tok = "true"
      [] f.type = "string" -> JSONString[v.tok]
      [] f.type = "url" -> ParseURL(JSONString[v.tok]).url
      [] OTHER -> JSONString[v.tok]

\* The fields of the type that the payload holds with a value of another
\* type or format.
IllTyped(type, obj) ==
    { i \in 1..Len(PayloadFields(type)) :
         /\ HasField(obj, PayloadFields(type)[i].name)
         /\ ~WellTyped(PayloadFields(type)[i], Field(obj, PayloadFields(type)[i].name)) }

\* C22: UnmarshalJSON of a payload with a field of the wrong type or format
\* returns an error that names such a field; of a payload whose fields are
\* all well-typed it returns no error, and the record holds the value of
\* every field of the payload.
C22_PresentFieldsAreValidated ==
    call.op = "UnmarshalJSON" =>
        /\ IllTyped(call.given.kind, ParseValue(call.given.val).val) # {} =>
              /\ call.err # NoErr
              /\ \E i \in IllTyped(call.given.kind, ParseValue(call.given.val).val) :
                    call.err.text[1] = PayloadFields(call.given.kind)[i].name
        /\ IllTyped(call.given.kind, ParseValue(call.given.val).val) = {} =>
              /\ call.err = NoErr
              /\ \A i \in 1..Len(PayloadFields(call.given.kind)) :
                    HasField(ParseValue(call.given.val).val,
                             PayloadFields(call.given.kind)[i].name)
                    => call.val[PayloadFields(call.given.kind)[i].dst]
                          = Held(PayloadFields(call.given.kind)[i],
                                 Field(ParseValue(call.given.val).val,
                                       PayloadFields(call.given.kind)[i].name))

====
